---- MODULE Spec2Model ----
(***************************************************************************)
(* Similarity Intelligence Platform: the Check job pipeline                *)
(* (app/api/checks.py, app/tasks/similarity_check.py), the scoring and     *)
(* aggregation engine (app/core/similarity.py), the text chunker           *)
(* (app/core/chunking.py) and the FAISS vector store                       *)
(* (app/core/vector_store.py).                                             *)
(*                                                                         *)
(* Units.  A chunk similarity in [0,1] is an integer number of hundredths  *)
(* (0..100).  A Check score (0-100 scale, rounded to two decimals by the   *)
(* code) is an integer number of hundredths of a point (0..10000 is the    *)
(* documented range).  A per-source similarity (rounded to three decimals  *)
(* by the code) is an integer number of thousandths.                       *)
(***************************************************************************)
EXTENDS Integers, Sequences, FiniteSets, TLC

VARIABLES
    org,        \* the organizations row: current_month_checks
    req,        \* HTTP requests POST /check, one record per request
    checks,     \* committed rows of table checks; the id is the position
    matches,    \* committed rows of table matches
    tasks,      \* process_similarity_check messages put on the broker
    run,        \* executions of the task, one record per delivery
    store,      \* the in-memory FAISSVectorStore (index, metadata, next_id)
    disk,       \* the two persisted files of the store
    ids,        \* the lists of ids add_vectors has returned: last and earlier
    removed,    \* the sources remove_by_source was called for and that
                \* have not been added again since
    last_search, \* the last call of FAISSVectorStore.search, its result
    call        \* the last call of a function of the engine, the chunker
                \* or the matcher, with its arguments and its result

vars == <<org, req, checks, matches, tasks, run, store, disk, ids, removed,
          last_search, call>>

jobVars == <<org, req, checks, matches, tasks, run>>
storeVars == <<store, disk, ids, removed>>
libVars == <<last_search, call>>

-----------------------------------------------------------------------------
(* Bounds of the exploration *)

MaxRequests == 2
MaxRuns == 2
MonthlyCheckLimit == 1
MaxVideos == 21
MaxTranscriptChunks == 2
MaxAdd == 2
MaxVectors == 4
MaxSources == 2
MaxK == 2
MaxMatches == 3
MaxChunks == 2
MaxWords == 130
MaxSegments == 3

Requests == 1..MaxRequests
Workers == 1..MaxRuns

\* word counts of the submitted articles, chunk similarities (hundredths)
WordCounts == {5, 50, 120}
ScoreLevels == {80, 100}
VideoCounts == {0, 1, MaxVideos}
SourceIds == 1..MaxSources

-----------------------------------------------------------------------------
(* Settings (app/config.py) *)

min_chunk_words == 40
max_chunk_words == 60
chunk_overlap_words == 10
similarity_threshold_low == 65
similarity_threshold_medium == 75
similarity_threshold_high == 85
persisted_sources_cap == 20
min_article_words == 10

NoScore == -1
NoMessage == "NULL"

-----------------------------------------------------------------------------
(* Arithmetic helpers *)

Min(a, b) == IF a <= b THEN a ELSE b

\* sum(scores), by halves
RECURSIVE SumScores(_)
SumScores(s) ==
    IF Len(s) = 0 THEN 0
    ELSE IF Len(s) = 1 THEN s[1]
    ELSE LET half == Len(s) \div 2
         IN  SumScores(SubSeq(s, 1, half))
                 + SumScores(SubSeq(s, half + 1, Len(s)))

\* max(scores), of a list that is not empty
MaxScore(s) ==
    CHOOSE x \in {s[i] : i \in 1..Len(s)} :
        \A j \in 1..Len(s) : x >= s[j]

\* Python round(): nearest, ties to even; a >= 0, b > 0
RoundDiv(a, b) ==
    LET q == a \div b
        r == a % b
    IN  IF 2 * r < b THEN q
        ELSE IF 2 * r > b THEN q + 1
        ELSE IF q % 2 = 0 THEN q ELSE q + 1

-----------------------------------------------------------------------------
(* TextChunker.chunk_text: the word windows [start, end) of a text of n    *)
(* words                                                                   *)

RECURSIVE chunk_windows_without_overlap(_, _, _)
chunk_windows_without_overlap(start_word_idx, n, chunk_index) ==
    LET end_word_idx == Min(start_word_idx + max_chunk_words, n)
        chunk == [chunk_index |-> chunk_index, start |-> start_word_idx,
                  end |-> end_word_idx,
                  word_count |-> end_word_idx - start_word_idx]
    IN  IF end_word_idx >= n THEN <<chunk>>
        ELSE <<chunk>> \o chunk_windows_without_overlap(
                 start_word_idx + max_chunk_words, n, chunk_index + 1)

RECURSIVE chunk_windows(_, _, _)
chunk_windows(start_word_idx, n, chunk_index) ==
    LET end_word_idx == Min(start_word_idx + max_chunk_words, n)
        chunk == [chunk_index |-> chunk_index, start |-> start_word_idx,
                  end |-> end_word_idx,
                  word_count |-> end_word_idx - start_word_idx]
    IN  IF end_word_idx >= n THEN <<chunk>>
        ELSE <<chunk>> \o chunk_windows(
                 start_word_idx + (max_chunk_words - chunk_overlap_words),
                 n, chunk_index + 1)

chunk_text_without_tail(n) ==
    IF n < min_chunk_words
    THEN <<[chunk_index |-> 0, start |-> 0, end |-> n, word_count |-> n]>>
    ELSE SelectSeq(chunk_windows(0, n, 0),
                   LAMBDA c : c.word_count >= min_chunk_words)

chunk_text(n) ==
    IF n < min_chunk_words
    THEN <<[chunk_index |-> 0, start |-> 0, end |-> n, word_count |-> n]>>
    ELSE chunk_windows(0, n, 0)

-----------------------------------------------------------------------------
(* SimilarityEngine *)

threshold_named_like_sensitivity(sensitivity) ==
    CASE sensitivity = "low" -> similarity_threshold_low
      [] sensitivity = "medium" -> similarity_threshold_medium
      [] sensitivity = "high" -> similarity_threshold_high
      [] OTHER -> similarity_threshold_medium

get_threshold_for_sensitivity(sensitivity) ==
    CASE sensitivity = "low" -> similarity_threshold_high
      [] sensitivity = "medium" -> similarity_threshold_medium
      [] sensitivity = "high" -> similarity_threshold_low
      [] OTHER -> similarity_threshold_medium

filter_matches_by_threshold(ms, threshold) ==
    SelectSeq(ms, LAMBDA m : m.similarity_score >= threshold)

ScoresOf(ms) == [i \in 1..Len(ms) |-> ms[i].similarity_score]

\* score = 40*max + 30*mean + 20*coverage + 10*min(count/5, 1) with
\* coverage = match_count / total_chunks; the numerator over n * total
ScoreNumerator(ms, total_chunks) ==
    LET n == Len(ms)
        t == IF total_chunks > 0 THEN total_chunks ELSE 1
        cover == IF total_chunks > 0 THEN 2000 * n * n ELSE 0
    IN  40 * MaxScore(ScoresOf(ms)) * n * t
        + 30 * SumScores(ScoresOf(ms)) * t
        + cover
        + 200 * Min(n, 5) * n * t

ScoreDenominator(ms, total_chunks) ==
    Len(ms) * (IF total_chunks > 0 THEN total_chunks ELSE 1)

calculate_similarity_score(ms, total_chunks) ==
    IF ms = <<>> THEN [score |-> 0, risk_level |-> "low"]
    ELSE LET num == ScoreNumerator(ms, total_chunks)
             den == ScoreDenominator(ms, total_chunks)
         IN  [score |-> RoundDiv(num, den),
              risk_level |->
                  IF num >= similarity_threshold_high * 100 * den THEN "high"
                  ELSE IF num >= similarity_threshold_medium * 100 * den
                       THEN "medium"
                  ELSE "low"]

\* the keys of source_groups: the distinct source ids of a list of
\* matches, in order of first appearance (dict insertion order)
SourceOrder(ms) ==
    LET first == SelectSeq([i \in 1..Len(ms) |-> i],
                     LAMBDA i : \A j \in 1..(i - 1) :
                                   ms[j].source_id # ms[i].source_id)
    IN  [k \in 1..Len(first) |-> ms[first[k]].source_id]

AggregateSourceEvenWeights(ms, source_id) ==
    LET source_matches == SelectSeq(ms, LAMBDA m : m.source_id = source_id)
        scores == ScoresOf(source_matches)
        n == Len(source_matches)
    IN  [source_id |-> source_id,
         source_type |-> source_matches[1].source_type,
         similarity_score |->
             RoundDiv(5 * MaxScore(scores) * n + 5 * SumScores(scores), n),
         match_count |-> n,
         max_chunk_similarity |-> 10 * MaxScore(scores),
         avg_chunk_similarity |-> RoundDiv(10 * SumScores(scores), n)]

\* one AggregatedMatch: overall_similarity = max * 0.6 + avg * 0.4, rounded
\* to three decimals
AggregateSource(ms, source_id) ==
    LET source_matches == SelectSeq(ms, LAMBDA m : m.source_id = source_id)
        scores == ScoresOf(source_matches)
        n == Len(source_matches)
    IN  [source_id |-> source_id,
         source_type |-> source_matches[1].source_type,
         similarity_score |->
             RoundDiv(6 * MaxScore(scores) * n + 4 * SumScores(scores), n),
         match_count |-> n,
         max_chunk_similarity |-> 10 * MaxScore(scores),
         avg_chunk_similarity |-> RoundDiv(10 * SumScores(scores), n)]

\* list.sort(key=similarity_score, reverse=True): descending and stable,
\* so element i lands after the elements with a higher score and the
\* earlier elements with the same score
SortDescending(aggregated) ==
    LET n == Len(aggregated)
        position(i) ==
            1 + Cardinality({j \in 1..n :
                    \/ aggregated[j].similarity_score
                           > aggregated[i].similarity_score
                    \/ /\ aggregated[j].similarity_score
                              = aggregated[i].similarity_score
                       /\ j < i})
    IN  [p \in 1..n |-> aggregated[CHOOSE i \in 1..n : position(i) = p]]

aggregate_matches_by_source(ms) ==
    LET order == SourceOrder(ms)
        aggregated == [i \in 1..Len(order) |-> AggregateSource(ms, order[i])]
    IN  SortDescending(aggregated)

-----------------------------------------------------------------------------
(* FAISSVectorStore.  index is the flat index: position p (from 0) holds   *)
(* the vector added p-th, named here by the metadata it was added with.    *)
(* metadata is the dict vector id -> VectorMetadata.                       *)

EmptyMetadata == [i \in {} |-> [source_id |-> 0, chunk_index |-> 0]]

EmptyStore == [index |-> <<>>, metadata |-> EmptyMetadata, next_id |-> 0]

NoFiles == [has_index |-> FALSE, index |-> <<>>,
            has_meta |-> FALSE, metadata |-> EmptyMetadata, next_id |-> 0]

\* the ids add_vectors(st, metadata_list) returns
assigned_ids(st, metadata_list) ==
    [i \in 1..Len(metadata_list) |-> st.next_id + (i - 1)]

add_vectors(st, metadata_list) ==
    LET start_id == st.next_id
        n == Len(metadata_list)
        new == {start_id + (i - 1) : i \in 1..n}
    IN  [index |-> st.index \o metadata_list,
         metadata |-> [v \in DOMAIN st.metadata \cup new |->
                          IF v \in new THEN metadata_list[v - start_id + 1]
                          ELSE st.metadata[v]],
         next_id |-> st.next_id + n]

remove_by_source(st, source_id) ==
    LET ids_to_remove == {v \in DOMAIN st.metadata :
                              st.metadata[v].source_id = source_id}
        ids_to_keep == DOMAIN st.metadata \ ids_to_remove
    IN  IF ids_to_remove = {} THEN st
        ELSE IF ids_to_keep = {} THEN EmptyStore
        ELSE [st EXCEPT !.metadata = [v \in ids_to_keep |-> st.metadata[v]]]

clear(st) == EmptyStore

save(st) == [has_index |-> TRUE, index |-> st.index,
             has_meta |-> TRUE, metadata |-> st.metadata,
             next_id |-> st.next_id]

\* __init__ followed by _load
load(d) ==
    [index |-> IF d.has_index THEN d.index ELSE <<>>,
     metadata |-> IF d.has_meta THEN d.metadata ELSE EmptyMetadata,
     next_id |-> IF d.has_meta THEN d.next_id ELSE 0]

\* the record of what add_vectors has returned so far
NoIds == [earlier |-> {}, last |-> {}]

RecordIds(g, returned) ==
    [earlier |-> g.earlier \cup g.last,
     last |-> {returned[i] : i \in 1..Len(returned)}]

-----------------------------------------------------------------------------
(* FAISSVectorStore.search and batch_search.  A query is described by the  *)
(* order in which the flat index ranks its positions for it: from the      *)
(* position nearest to the query, upwards or downwards, around the index.  *)
(* The similarity of a result is represented by its rank (rank 1 is the    *)
(* highest similarity).                                                    *)

Queries == [nearest : 0..(MaxVectors - 1), descending : BOOLEAN]
SearchKs == 1..MaxK
NoFilter == 0
Filters == {NoFilter} \cup SourceIds

\* self.index.search(query, search_k): the search_k best positions
index_search(st, query, search_k) ==
    LET n == Len(st.index)
    IN  [i \in 1..Min(search_k, n) |->
            IF query.descending
            THEN (query.nearest + n * MaxVectors - (i - 1)) % n
            ELSE (query.nearest + (i - 1)) % n]

\* filter_fn(meta) of a caller that keeps one source
filter_fn(filter, meta) == meta.source_id = filter

search_k_without_attrition(st, k, filter) == Min(k, Len(st.index))

\* search_k: more raw candidates are requested when a filter is given
search_k_of(st, k, filter) ==
    IF filter # NoFilter THEN Min(k * 3, Len(st.index))
    ELSE Min(k, Len(st.index))

search(st, query, k, filter) ==
    IF Len(st.index) = 0 THEN [examined |-> 0, results |-> <<>>]
    ELSE LET search_k == search_k_of(st, k, filter)
             indices == index_search(st, query, search_k)
             kept == SelectSeq([i \in 1..Len(indices) |-> i],
                         LAMBDA i :
                             /\ indices[i] \in DOMAIN st.metadata
                             /\ \/ filter = NoFilter
                                \/ filter_fn(filter, st.metadata[indices[i]]))
         IN  [examined |-> search_k,
              results |-> [j \in 1..Min(k, Len(kept)) |->
                              [meta |-> st.metadata[indices[kept[j]]],
                               rank |-> kept[j]]]]

\* batch_search for one of its queries: no filter, no early return
batch_search(st, query, k) ==
    LET indices == index_search(st, query, k)
        kept == SelectSeq([i \in 1..Len(indices) |-> i],
                    LAMBDA i : indices[i] \in DOMAIN st.metadata)
    IN  [j \in 1..Len(kept) |->
            [meta |-> st.metadata[indices[kept[j]]], rank |-> kept[j]]]

NoCall == [op |-> "none"]

NoSearch == [k |-> 0, filter |-> NoFilter, ntotal |-> 0, examined |-> 0,
             results |-> <<>>]

-----------------------------------------------------------------------------
(* SimilarityMatcher (youtube_similarity/services/similarity_matcher.py).  *)
(* A match is the interval, in seconds, of the transcript chunk it was     *)
(* made of; members names the matches of the sorted input it stands for.   *)

merge_gap_seconds == 10

\* sorted(matches, key=lambda m: m.timestamp_start): ascending and stable
sort_by_timestamp_start(ms) ==
    LET n == Len(ms)
        position(i) ==
            1 + Cardinality({j \in 1..n :
                    \/ ms[j].timestamp_start < ms[i].timestamp_start
                    \/ /\ ms[j].timestamp_start = ms[i].timestamp_start
                       /\ j < i})
    IN  [p \in 1..n |-> ms[CHOOSE i \in 1..n : position(i) = p]]

\* the loop of _merge_adjacent_matches from position idx of the sorted list
RECURSIVE merge_loop(_, _, _, _)
merge_loop(sorted_matches, idx, current, merged) ==
    IF idx > Len(sorted_matches) THEN Append(merged, current)
    ELSE LET next_match == sorted_matches[idx]
         IN  IF next_match.timestamp_start - current.timestamp_end
                    <= merge_gap_seconds
             THEN merge_loop(sorted_matches, idx + 1,
                      [timestamp_start |-> current.timestamp_start,
                       timestamp_end |-> next_match.timestamp_end,
                       similarity_score |->
                           IF current.similarity_score
                                  >= next_match.similarity_score
                           THEN current.similarity_score
                           ELSE next_match.similarity_score,
                       matched_chunks_count |->
                           current.matched_chunks_count + 1,
                       members |-> current.members \cup {idx}],
                      merged)
             ELSE merge_loop(sorted_matches, idx + 1,
                             [next_match EXCEPT !.members = {idx}],
                             Append(merged, current))

merge_adjacent_matches(ms) ==
    IF ms = <<>> THEN <<>>
    ELSE LET sorted_matches == sort_by_timestamp_start(ms)
         IN  merge_loop(sorted_matches, 2,
                        [sorted_matches[1] EXCEPT !.members = {1}], <<>>)

-----------------------------------------------------------------------------
(* YouTubeTranscriptFetcher.chunk_transcript (app/core/youtube.py).  A     *)
(* segment is the number of words its text has once the filler words are   *)
(* removed; a chunk is its number of words and the segment whose timestamp *)
(* it carries.                                                             *)

target_words == 50

\* the loop over the segments from position idx: current_len is
\* len(current_chunk), count is current_word_count and first is
\* chunk_start_timestamp (0 for None) before the segment is read
RECURSIVE chunk_transcript_loop(_, _, _, _, _, _)
chunk_transcript_loop(segments, idx, current_len, count, first, chunks) ==
    IF idx > Len(segments)
    THEN IF current_len > 0
         THEN Append(chunks, [words |-> count, timestamp |-> first])
         ELSE chunks
    ELSE LET chunk_start_timestamp == IF first = 0 THEN idx ELSE first
             current_word_count == count + segments[idx]
         IN  IF current_word_count >= target_words
             THEN chunk_transcript_loop(segments, idx + 1, 0, 0, 0,
                      Append(chunks,
                             [words |-> current_word_count,
                              timestamp |-> chunk_start_timestamp]))
             ELSE chunk_transcript_loop(segments, idx + 1, current_len + 1,
                                        current_word_count,
                                        chunk_start_timestamp, chunks)

chunk_transcript(segments) ==
    chunk_transcript_loop(segments, 1, 0, 0, 0, <<>>)

\* the VectorMetadata list _check_youtube builds of the chunks of a video
transcript_metadata(video_id, chunks) ==
    [i \in 1..Len(chunks) |->
        [source_id |-> video_id, chunk_index |-> i - 1,
         chunk_words |-> chunks[i].words]]

-----------------------------------------------------------------------------
(* POST /check: the dependencies of the route, then the route              *)

SourceChoices == {{"articles"}, {"youtube"}, {"articles", "youtube"}}
Sensitivities == {"low", "high"}

NewRequest == [pc |-> "start", loaded |-> 0, outcome |-> "none", check_id |-> 0]

rate_limit_off_by_one(current_month_checks) ==
    current_month_checks > MonthlyCheckLimit

\* check_rate_limit: the monthly quota test of the API-key dependency
rate_limit_exceeded(current_month_checks) ==
    current_month_checks >= MonthlyCheckLimit

\* create_similarity_check: the monthly quota test of the route
quota_exceeded(current_month_checks) ==
    current_month_checks >= MonthlyCheckLimit

NewCheck(sources, sensitivity, word_count) ==
    [status |-> "pending",
     word_count |-> word_count,
     chunk_count |-> 0,
     check_articles |-> "articles" \in sources,
     check_youtube |-> "youtube" \in sources,
     sensitivity |-> sensitivity,
     similarity_score |-> NoScore,
     risk_level |-> "NULL",
     match_count |-> 0,
     sources_checked |-> 0,
     error_message |-> NoMessage]

\* get_current_api_key and get_current_organization: the organization is
\* selected into the request's session, and check_rate_limit rejects the
\* request with HTTPException(429) when the monthly quota is used up
get_current_api_key(r) ==
    /\ req[r].pc = "start"
    /\ IF rate_limit_exceeded(org.current_month_checks)
       THEN req' = [req EXCEPT ![r] = [@ EXCEPT !.pc = "done",
                        !.loaded = org.current_month_checks,
                        !.outcome = "HTTP_429"]]
       ELSE req' = [req EXCEPT ![r] = [@ EXCEPT !.pc = "loaded",
                        !.loaded = org.current_month_checks]]
    /\ UNCHANGED <<org, checks, matches, tasks, run, storeVars, libVars>>

\* the route body: quota test, word count test, insert of the Check and
\* update of the counter in one commit, then process_similarity_check.delay
create_similarity_check(r) ==
    /\ req[r].pc = "loaded"
    /\ \E sources \in SourceChoices, sensitivity \in Sensitivities,
          words \in WordCounts, commit_ok \in BOOLEAN :
          IF quota_exceeded(req[r].loaded)
          THEN /\ req' = [req EXCEPT ![r] = [@ EXCEPT !.pc = "done",
                              !.outcome = "QuotaExceededError"]]
               /\ UNCHANGED <<org, checks, tasks>>
          ELSE IF words < min_article_words
          THEN /\ req' = [req EXCEPT ![r] = [@ EXCEPT !.pc = "done",
                              !.outcome = "ValidationError"]]
               /\ UNCHANGED <<org, checks, tasks>>
          ELSE IF ~commit_ok
          THEN /\ req' = [req EXCEPT ![r] = [@ EXCEPT !.pc = "done",
                              !.outcome = "DatabaseError"]]
               /\ UNCHANGED <<org, checks, tasks>>
          ELSE /\ checks' = Append(checks,
                                   NewCheck(sources, sensitivity, words))
               /\ org' = [org EXCEPT
                             !.current_month_checks = req[r].loaded + 1]
               /\ tasks' = tasks \cup
                             {[check_id |-> Len(checks) + 1, words |-> words]}
               /\ req' = [req EXCEPT ![r] = [@ EXCEPT !.pc = "done",
                              !.outcome = "accepted",
                              !.check_id = Len(checks) + 1]]
    /\ UNCHANGED <<matches, run, storeVars, libVars>>

-----------------------------------------------------------------------------
(* process_similarity_check / _process_check_async.  A run is one          *)
(* execution of the task; the broker may deliver a message more than once. *)

VideoKinds == [nchunks : 1..MaxTranscriptChunks, score : ScoreLevels]

\* what search_and_fetch_transcripts returns: n videos, each with its
\* transcript chunks and the similarity of its chunks to the article's
youtube_data(n, kind) ==
    [i \in 1..n |-> [video_id |-> i, nchunks |-> kind.nchunks,
                     score |-> kind.score]]

IdleRun == [pc |-> "idle", check_id |-> 0, words |-> 0,
            check |-> NewCheck({}, "medium", 0),
            all_matches |-> <<>>, no_match |-> TRUE, sources_checked |-> 0,
            error |-> "none", raised_in |-> "none", commit_failed |-> FALSE]

\* the task starts: select(Check).where(Check.id == check_id)
process_similarity_check(w) ==
    /\ run[w].pc = "idle"
    /\ \E t \in tasks :
          run' = [run EXCEPT ![w] = [IdleRun EXCEPT !.pc = "mark",
                      !.check_id = t.check_id, !.words = t.words,
                      !.check = checks[t.check_id]]]
    /\ UNCHANGED <<org, req, checks, matches, tasks, storeVars, libVars>>

\* check.status = "processing"; commit
mark_processing(w) ==
    /\ run[w].pc = "mark"
    /\ \E commit_ok \in BOOLEAN :
          IF commit_ok
          THEN /\ checks' = [checks EXCEPT
                                ![run[w].check_id].status = "processing"]
               /\ run' = [run EXCEPT ![w].pc = "chunk",
                                     ![w].check.status = "processing"]
          ELSE /\ run' = [run EXCEPT ![w].pc = "handler",
                                     ![w].error = "SQLAlchemyError",
                                     ![w].commit_failed = TRUE]
               /\ UNCHANGED checks
    /\ UNCHANGED <<org, req, matches, tasks, storeVars, libVars>>

\* chunk_and_embed; check.chunk_count = len(chunks); commit
chunk_and_embed(w) ==
    /\ run[w].pc = "chunk"
    /\ LET n == Len(chunk_text(run[w].words))
       IN  \E commit_ok \in BOOLEAN :
              IF commit_ok
              THEN /\ checks' = [checks EXCEPT
                                    ![run[w].check_id].chunk_count = n]
                   /\ run' = [run EXCEPT
                          ![w].check.chunk_count = n,
                          ![w].pc = IF run[w].check.check_articles
                                    THEN "articles"
                                    ELSE IF run[w].check.check_youtube
                                         THEN "youtube" ELSE "persist"]
              ELSE /\ run' = [run EXCEPT ![w].pc = "handler",
                                         ![w].error = "SQLAlchemyError",
                                         ![w].commit_failed = TRUE]
                   /\ UNCHANGED checks
    /\ UNCHANGED <<org, req, matches, tasks, storeVars, libVars>>

\* _check_articles: its first statement after get_article_store() is
\* article_store.count(), a method FAISSVectorStore does not define, so
\* the call raises AttributeError; nothing in _check_articles or in
\* _process_check_async catches it before the handler
check_articles(w) ==
    /\ run[w].pc = "articles"
    /\ run' = [run EXCEPT ![w].pc = "handler",
                          ![w].error = "AttributeError",
                          ![w].raised_in = "articles"]
    /\ UNCHANGED <<org, req, checks, matches, tasks, storeVars, libVars>>

\* the matches of one video: every article chunk against every transcript
\* chunk, kept when the similarity reaches the threshold
video_matches(video, chunk_count, threshold) ==
    LET pairs == [p \in 1..(chunk_count * video.nchunks) |->
                     [chunk_index |-> (p - 1) \div video.nchunks,
                      source_id |-> video.video_id,
                      source_type |-> "youtube",
                      similarity_score |-> video.score]]
    IN  SelectSeq(pairs, LAMBDA m : m.similarity_score >= threshold)

video_metadata(video) ==
    [i \in 1..video.nchunks |->
        [source_id |-> video.video_id, chunk_index |-> i - 1]]

RECURSIVE youtube_loop_exit_on_video_without_match(_, _, _, _, _, _, _)
youtube_loop_exit_on_video_without_match(videos, idx, st, g, found, chunk_count, threshold) ==
    IF idx > Len(videos)
    THEN [store |-> st, ids |-> g, matches |-> found, processed |-> idx - 1]
    ELSE LET video == videos[idx]
             metadata_list == video_metadata(video)
             st2 == add_vectors(st, metadata_list)
             g2 == RecordIds(g, assigned_ids(st, metadata_list))
             video_found == video_matches(video, chunk_count, threshold)
             found2 == found \o video_found
         IN  IF idx - 1 >= 2 /\ Len(video_found) = 0
             THEN [store |-> st2, ids |-> g2, matches |-> found2,
                   processed |-> idx]
             ELSE youtube_loop_exit_on_video_without_match(
                      videos, idx + 1, st2, g2, found2, chunk_count,
                      threshold)

\* the loop of _check_youtube over the videos, from position idx: each
\* video is added to the store and compared; after the third video the
\* loop stops when no match has been found so far
RECURSIVE youtube_loop(_, _, _, _, _, _, _)
youtube_loop(videos, idx, st, g, found, chunk_count, threshold) ==
    IF idx > Len(videos)
    THEN [store |-> st, ids |-> g, matches |-> found, processed |-> idx - 1]
    ELSE LET video == videos[idx]
             metadata_list == video_metadata(video)
             st2 == add_vectors(st, metadata_list)
             g2 == RecordIds(g, assigned_ids(st, metadata_list))
             found2 == found \o video_matches(video, chunk_count, threshold)
         IN  IF idx - 1 >= 2 /\ Len(found2) = 0
             THEN [store |-> st2, ids |-> g2, matches |-> found2,
                   processed |-> idx]
             ELSE youtube_loop(videos, idx + 1, st2, g2, found2,
                               chunk_count, threshold)

DistinctSources(ms) == {ms[i].source_id : i \in 1..Len(ms)}

\* _check_youtube, then all_matches.extend and the sources_checked update.
\* youtube_store.save() is the one call that can fail on the environment
\* (the files of the store); its exception is not caught
check_youtube(w) ==
    /\ run[w].pc = "youtube"
    /\ \E n \in VideoCounts, kind \in VideoKinds, save_ok \in BOOLEAN :
          LET videos == youtube_data(n, kind)
              threshold ==
                  get_threshold_for_sensitivity(run[w].check.sensitivity)
              out == youtube_loop(videos, 1, store, ids, <<>>,
                                  run[w].check.chunk_count, threshold)
          IN  IF videos = <<>>
              THEN /\ run' = [run EXCEPT ![w].pc = "persist"]
                   /\ UNCHANGED storeVars
              ELSE /\ store' = out.store
                   /\ ids' = out.ids
                   /\ removed' = removed \ {videos[i].video_id :
                                                i \in 1..out.processed}
                   /\ IF save_ok
                      THEN /\ disk' = save(out.store)
                           /\ run' = [run EXCEPT ![w].pc = "persist",
                                  ![w].all_matches = @ \o out.matches,
                                  ![w].sources_checked =
                                      @ + Cardinality(
                                            DistinctSources(out.matches))]
                      ELSE /\ disk' = disk
                           /\ run' = [run EXCEPT ![w].pc = "handler",
                                  ![w].error = "RuntimeError",
                                  ![w].raised_in = "youtube"]
    /\ UNCHANGED <<org, req, checks, matches, tasks, libVars>>

\* the Match rows of the top persisted_sources_cap aggregated matches
match_rows(check_id, w, aggregated) ==
    [i \in 1..Min(Len(aggregated), persisted_sources_cap) |->
        [check_id |-> check_id, run |-> w,
         source_id |-> aggregated[i].source_id,
         similarity_score |-> aggregated[i].similarity_score,
         match_count |-> aggregated[i].match_count]]

\* the match_count the Check is given
stored_match_count(aggregated) == Len(aggregated)

\* filter, score, aggregate, db.add of the Match rows, the result fields
\* of the Check, commit.  A failed commit rolls the transaction back: the
\* pending Match rows and the unflushed attribute changes are dropped
persist_results(w) ==
    /\ run[w].pc = "persist"
    /\ LET c == run[w].check_id
           threshold ==
               get_threshold_for_sensitivity(run[w].check.sensitivity)
           filtered_matches ==
               filter_matches_by_threshold(run[w].all_matches, threshold)
           result == calculate_similarity_score(filtered_matches,
                                                run[w].check.chunk_count)
           aggregated_matches == aggregate_matches_by_source(filtered_matches)
           completed == [run[w].check EXCEPT
                            !.status = "completed",
                            !.similarity_score = result.score,
                            !.risk_level = result.risk_level,
                            !.match_count =
                                stored_match_count(aggregated_matches),
                            !.sources_checked = run[w].sources_checked]
       IN  \E commit_ok \in BOOLEAN :
              IF commit_ok
              THEN /\ matches' = matches
                                   \o match_rows(c, w, aggregated_matches)
                   /\ checks' = [checks EXCEPT ![c] = [@ EXCEPT
                          !.status = completed.status,
                          !.similarity_score = completed.similarity_score,
                          !.risk_level = completed.risk_level,
                          !.match_count = completed.match_count,
                          !.sources_checked = completed.sources_checked]]
                   /\ run' = [run EXCEPT ![w].pc = "done",
                                         ![w].check = completed,
                                         ![w].no_match =
                                             run[w].all_matches = <<>>,
                                         ![w].all_matches = <<>>]
              ELSE /\ run' = [run EXCEPT ![w].pc = "handler",
                                         ![w].error = "SQLAlchemyError",
                                         ![w].commit_failed = TRUE,
                                         ![w].no_match =
                                             run[w].all_matches = <<>>,
                                         ![w].all_matches = <<>>]
                   /\ UNCHANGED <<checks, matches>>
    /\ UNCHANGED <<org, req, tasks, storeVars, libVars>>

\* except Exception: check.status = "failed"; error_message = str(e);
\* commit; raise.  When this commit fails too its exception leaves the
\* task and nothing is written
handle_error(w) ==
    /\ run[w].pc = "handler"
    /\ \E commit_ok \in BOOLEAN :
          IF commit_ok
          THEN /\ checks' = [checks EXCEPT ![run[w].check_id] = [@ EXCEPT
                                !.status = "failed",
                                !.error_message = run[w].error]]
               /\ run' = [run EXCEPT ![w].pc = "done",
                                     ![w].check.status = "failed",
                                     ![w].check.error_message = run[w].error]
          ELSE /\ run' = [run EXCEPT ![w].pc = "done",
                                     ![w].commit_failed = TRUE]
               /\ UNCHANGED checks
    /\ UNCHANGED <<org, req, matches, tasks, storeVars, libVars>>

-----------------------------------------------------------------------------
(* The job pipeline *)

Init ==
    /\ org = [current_month_checks |-> 0]
    /\ req = [r \in Requests |-> NewRequest]
    /\ checks = <<>>
    /\ matches = <<>>
    /\ tasks = {}
    /\ run = [w \in Workers |-> IdleRun]
    /\ store = EmptyStore
    /\ disk = NoFiles
    /\ ids = NoIds
    /\ removed = {}
    /\ last_search = NoSearch
    /\ call = NoCall

Next ==
    \/ get_current_api_key(1)
    \/ create_similarity_check(1)
    \/ \E w \in Workers : process_similarity_check(w)
    \/ \E w \in Workers : mark_processing(w)
    \/ \E w \in Workers : chunk_and_embed(w)
    \/ \E w \in Workers : check_articles(w)
    \/ \E w \in Workers : check_youtube(w)
    \/ \E w \in Workers : persist_results(w)
    \/ \E w \in Workers : handle_error(w)

Spec == Init /\ [][Next]_vars

-----------------------------------------------------------------------------
(* Concurrent submissions of one organization *)

SubmitNext ==
    \/ \E r \in Requests : get_current_api_key(r)
    \/ \E r \in Requests : create_similarity_check(r)

SubmitSpec == Init /\ [][SubmitNext]_vars

-----------------------------------------------------------------------------
(* The vector store on its own: any sequence of its operations *)

source_chunks(source_id, n) ==
    [i \in 1..n |-> [source_id |-> source_id, chunk_index |-> i - 1]]

AddVectors(source_id, n) ==
    /\ Len(store.index) + n <= MaxVectors
    /\ store' = add_vectors(store, source_chunks(source_id, n))
    /\ ids' = RecordIds(ids, assigned_ids(store, source_chunks(source_id, n)))
    /\ removed' = removed \ {source_id}
    /\ UNCHANGED <<disk, jobVars, libVars>>

RemoveBySource(source_id) ==
    /\ store' = remove_by_source(store, source_id)
    /\ removed' = removed \cup {source_id}
    /\ UNCHANGED <<disk, ids, jobVars, libVars>>

Clear ==
    /\ store' = clear(store)
    /\ UNCHANGED <<disk, ids, removed, jobVars, libVars>>

Save ==
    /\ disk' = save(store)
    /\ UNCHANGED <<store, ids, removed, jobVars, libVars>>

\* a process start: FAISSVectorStore(...) reads the files back
Load ==
    /\ store' = load(disk)
    /\ UNCHANGED <<disk, ids, removed, jobVars, libVars>>

StoreNext ==
    \/ \E source_id \in SourceIds, n \in 1..MaxAdd : AddVectors(source_id, n)
    \/ \E source_id \in SourceIds : RemoveBySource(source_id)
    \/ Clear
    \/ Save
    \/ Load

StoreSpec == Init /\ [][StoreNext]_vars

-----------------------------------------------------------------------------
(* Searches of a store that was filled, and partly emptied, before *)

\* the stores after two add_vectors and, for source_id in SourceIds, a
\* remove_by_source
SearchStores ==
    {[store |-> IF gone = NoFilter THEN filled
                ELSE remove_by_source(filled, gone),
      removed |-> IF gone = NoFilter THEN {} ELSE {gone}] :
        gone \in {NoFilter} \cup SourceIds,
        filled \in {add_vectors(add_vectors(EmptyStore,
                                            source_chunks(a, n)),
                                source_chunks(b, m)) :
                        a \in SourceIds, b \in SourceIds,
                        n \in 0..MaxAdd, m \in 0..MaxAdd}}

SearchInit ==
    /\ org = [current_month_checks |-> 0]
    /\ req = [r \in Requests |-> NewRequest]
    /\ checks = <<>>
    /\ matches = <<>>
    /\ tasks = {}
    /\ run = [w \in Workers |-> IdleRun]
    /\ \E s \in SearchStores : store = s.store /\ removed = s.removed
    /\ disk = NoFiles
    /\ ids = NoIds
    /\ last_search = NoSearch
    /\ call = NoCall

Search(query, k, filter) ==
    /\ last_search = NoSearch
    /\ LET out == search(store, query, k, filter)
       IN  last_search' =
               [k |-> k, filter |-> filter, ntotal |-> Len(store.index),
                examined |-> out.examined, results |-> out.results]
    /\ UNCHANGED <<storeVars, jobVars, call>>

SearchNext ==
    \E query \in Queries, k \in SearchKs, filter \in Filters :
        Search(query, k, filter)

SearchSpec == SearchInit /\ [][SearchNext]_vars

-----------------------------------------------------------------------------
(* The functions of SimilarityEngine on their own: a call is drawn with    *)
(* its arguments, then made                                                *)

\* nothing submitted, nothing stored: the state around a call of a function
NoJobNoStore ==
    /\ org = [current_month_checks |-> 0]
    /\ req = [r \in Requests |-> NewRequest]
    /\ checks = <<>>
    /\ matches = <<>>
    /\ tasks = {}
    /\ run = [w \in Workers |-> IdleRun]
    /\ store = EmptyStore
    /\ disk = NoFiles
    /\ ids = NoIds
    /\ removed = {}
    /\ last_search = NoSearch

\* the lists of at most n elements of S
ListsOf(S, n) == UNION {[1..len -> S] : len \in 0..n}

\* chunk similarities (hundredths) on and next to the three thresholds
FilterScores == {64, 65, 74, 75, 80, 84, 85}
AggregateScores == {80, 90, 100}
SensitivityArguments == {"low", "medium", "high", "unknown"}

SimilarityMatches(chunk_indexes, source_ids, scores) ==
    [chunk_index : chunk_indexes, source_id : source_ids,
     source_type : {"article"}, similarity_score : scores]

\* calculate_similarity_score(matches, total_chunks): the matches are of
\* chunks of the submission
ScoreCalls ==
    UNION {[op : {"calculate_similarity_score"}, done : {FALSE},
            matches : ListsOf(SimilarityMatches(0..(t - 1), {1},
                                                ScoreLevels), MaxMatches),
            total_chunks : {t}, sensitivity : {"medium"},
            result : {<<>>}] : t \in 1..MaxChunks}

FilterCalls ==
    [op : {"filter_matches_by_threshold"}, done : {FALSE},
     matches : ListsOf(SimilarityMatches({0}, {1}, FilterScores),
                       MaxMatches - 1),
     total_chunks : {1}, sensitivity : SensitivityArguments,
     result : {<<>>}]

AggregateCalls ==
    [op : {"aggregate_matches_by_source"}, done : {FALSE},
     matches : ListsOf(SimilarityMatches({0}, SourceIds, AggregateScores),
                       MaxMatches),
     total_chunks : {1}, sensitivity : {"medium"}, result : {<<>>}]

EngineInit ==
    /\ NoJobNoStore
    /\ call \in ScoreCalls \cup FilterCalls \cup AggregateCalls

CalculateSimilarityScore ==
    /\ call.op = "calculate_similarity_score" /\ ~call.done
    /\ call' = [call EXCEPT !.done = TRUE,
                  !.result = calculate_similarity_score(call.matches,
                                                        call.total_chunks)]
    /\ UNCHANGED <<jobVars, storeVars, last_search>>

\* filter_matches_by_threshold(matches,
\*                             get_threshold_for_sensitivity(sensitivity))
FilterMatches ==
    /\ call.op = "filter_matches_by_threshold" /\ ~call.done
    /\ call' = [call EXCEPT !.done = TRUE,
                  !.result = filter_matches_by_threshold(call.matches,
                      get_threshold_for_sensitivity(call.sensitivity))]
    /\ UNCHANGED <<jobVars, storeVars, last_search>>

AggregateMatches ==
    /\ call.op = "aggregate_matches_by_source" /\ ~call.done
    /\ call' = [call EXCEPT !.done = TRUE,
                  !.result = aggregate_matches_by_source(call.matches)]
    /\ UNCHANGED <<jobVars, storeVars, last_search>>

EngineNext ==
    \/ CalculateSimilarityScore
    \/ FilterMatches
    \/ AggregateMatches

EngineSpec == EngineInit /\ [][EngineNext]_vars

-----------------------------------------------------------------------------
(* TextChunker.chunk_text on its own: a text of 0..MaxWords words *)

ChunkCalls ==
    [op : {"chunk_text"}, done : {FALSE}, words : 0..MaxWords,
     result : {<<>>}]

ChunkInit ==
    /\ NoJobNoStore
    /\ call \in ChunkCalls

ChunkText ==
    /\ call.op = "chunk_text" /\ ~call.done
    /\ call' = [call EXCEPT !.done = TRUE, !.result = chunk_text(call.words)]
    /\ UNCHANGED <<jobVars, storeVars, last_search>>

ChunkNext == ChunkText

ChunkSpec == ChunkInit /\ [][ChunkNext]_vars

-----------------------------------------------------------------------------
(* SimilarityMatcher._merge_adjacent_matches on its own: the matches of    *)
(* one video, as _extract_matches lists them                               *)

\* seconds at which the transcript chunks of a video start and end
TimePoints == {0, 10, 20, 31, 50}

VideoMatches ==
    {m \in [timestamp_start : TimePoints, timestamp_end : TimePoints,
            similarity_score : ScoreLevels, matched_chunks_count : {1},
            members : {{}}] :
        m.timestamp_start <= m.timestamp_end}

MergeCalls ==
    [op : {"_merge_adjacent_matches"}, done : {FALSE},
     matches : ListsOf(VideoMatches, MaxMatches), result : {<<>>}]

MatcherInit ==
    /\ NoJobNoStore
    /\ call \in MergeCalls

MergeAdjacentMatches ==
    /\ call.op = "_merge_adjacent_matches" /\ ~call.done
    /\ call' = [call EXCEPT !.done = TRUE,
                  !.result = merge_adjacent_matches(call.matches)]
    /\ UNCHANGED <<jobVars, storeVars, last_search>>

MatcherNext == MergeAdjacentMatches

MatcherSpec == MatcherInit /\ [][MatcherNext]_vars

-----------------------------------------------------------------------------
(* The transcript of one video, chunked and added to the YouTube store *)

\* words of a segment of the transcript API, after filler removal
SegmentWords == {0, 5, 25, 45, 70}

TranscriptCalls ==
    [op : {"chunk_transcript"}, done : {FALSE},
     segments : ListsOf(SegmentWords, MaxSegments), result : {<<>>}]

TranscriptInit ==
    /\ NoJobNoStore
    /\ call \in TranscriptCalls

\* search_and_fetch_transcripts chunks the segments; _check_youtube adds
\* the chunks of the video to the store
IndexTranscript ==
    /\ call.op = "chunk_transcript" /\ ~call.done
    /\ LET chunks == chunk_transcript(call.segments)
           metadata_list == transcript_metadata(1, chunks)
       IN  /\ call' = [call EXCEPT !.done = TRUE, !.result = chunks]
           /\ store' = add_vectors(store, metadata_list)
           /\ ids' = RecordIds(ids, assigned_ids(store, metadata_list))
           /\ removed' = removed \ {1}
    /\ UNCHANGED <<disk, jobVars, last_search>>

TranscriptNext == IndexTranscript

TranscriptSpec == TranscriptInit /\ [][TranscriptNext]_vars

-----------------------------------------------------------------------------
(* Properties *)

Terminal == {"completed", "failed"}

CheckIds == 1..Len(checks)

RowsOf(c) == SelectSeq(matches, LAMBDA m : m.check_id = c)

ActiveOn(c) ==
    {w \in Workers : run[w].check_id = c /\ run[w].pc \notin {"idle", "done"}}

\* C1: once a Check is completed or failed, no later execution of the task
\* changes its status or any other column of its row
TerminalCheckIsImmutable ==
    [][\A c \in CheckIds :
          checks[c].status \in Terminal => checks'[c] = checks[c]]_vars

\* C2: a run in which a source fetcher raised, and in which no commit
\* failed, leaves the Check completed, not failed
FetcherFailureStillCompletes ==
    \A w \in Workers :
        (/\ run[w].pc = "done"
         /\ run[w].raised_in # "none"
         /\ ~run[w].commit_failed)
        => run[w].check.status = "completed"

\* C3: a Check is in status processing only while a run is working on it:
\* every run that put it there has moved it to completed or failed by the
\* time it ends, also when a commit raised
ProcessingReachesTerminal ==
    \A c \in CheckIds :
        checks[c].status = "processing" => ActiveOn(c) # {}

\* C4: a failed Check has its error message set and no Match row
FailedCheckHasNoReport ==
    \A c \in CheckIds :
        checks[c].status = "failed"
        => /\ checks[c].error_message # NoMessage
           /\ RowsOf(c) = <<>>

\* C5: the similarity score of a completed Check lies in [0, 100]
CompletedScoreInRange ==
    \A c \in CheckIds :
        checks[c].status = "completed"
        => /\ checks[c].similarity_score >= 0
           /\ checks[c].similarity_score <= 100 * 100

\* C6: the match_count of a completed Check is the number of its Match rows
MatchCountIsRowCount ==
    \A c \in CheckIds :
        checks[c].status = "completed"
        => checks[c].match_count = Len(RowsOf(c))

QuotaIsAtomic ==
    /\ Len(checks) <= MonthlyCheckLimit
    /\ org.current_month_checks <= MonthlyCheckLimit
    /\ org.current_month_checks = Len(checks)

\* C9: a run that found no match, and met no failing commit and no failing
\* store write, leaves the Check completed with score 0, risk low,
\* match_count 0 and sources_checked 0
NoMatchCompletes ==
    \A w \in Workers :
        (/\ run[w].pc = "done"
         /\ run[w].no_match
         /\ ~run[w].commit_failed
         /\ run[w].raised_in # "youtube")
        => /\ run[w].check.status = "completed"
           /\ run[w].check.similarity_score = 0
           /\ run[w].check.risk_level = "low"
           /\ run[w].check.match_count = 0
           /\ run[w].check.sources_checked = 0

\* C10: every id add_vectors returns is greater than every id it returned
\* in an earlier call
VectorIdsIncrease ==
    \A i \in ids.last : \A j \in ids.earlier : i > j

\* C11: no search and no batch_search returns a record of a source that
\* remove_by_source was called for and that has not been added again,
\* whatever was saved, loaded or added in between
RemovedSourceNeverReturned ==
    \A query \in Queries, k \in SearchKs :
        /\ \A filter \in Filters :
              LET results == search(store, query, k, filter).results
              IN  \A i \in 1..Len(results) :
                      results[i].meta.source_id \notin removed
        /\ LET results == batch_search(store, query, k)
           IN  \A i \in 1..Len(results) :
                   results[i].meta.source_id \notin removed

\* C12: a search returns at most k results, in the rank order of the
\* index, all of which satisfy the filter when one is given, and requests
\* min(3k, ntotal) raw candidates with a filter, min(k, ntotal) without
SearchContract ==
    last_search # NoSearch
    => /\ Len(last_search.results) <= last_search.k
       /\ \A i \in 1..Len(last_search.results) :
             \A j \in 1..Len(last_search.results) :
                 i < j => last_search.results[i].rank
                              < last_search.results[j].rank
       /\ last_search.filter # NoFilter
          => \A i \in 1..Len(last_search.results) :
                 last_search.results[i].meta.source_id = last_search.filter
       /\ last_search.examined =
              IF last_search.filter # NoFilter
              THEN Min(3 * last_search.k, last_search.ntotal)
              ELSE Min(last_search.k, last_search.ntotal)

FilteredSearchSkipped ==
    /\ last_search.filter # NoFilter
    /\ last_search.examined = 3 * last_search.k
    /\ last_search.examined < last_search.ntotal
    /\ Len(last_search.results) = last_search.k
    /\ last_search.results[1].rank > 1

Made(op) == call.op = op /\ call.done

\* the chunks of the submission that have at least one match
MatchedChunks(ms) == {ms[i].chunk_index : i \in 1..Len(ms)}

\* C13: the score of a list of matches that is not empty is
\* 40*max + 30*mean + 20*coverage + 10*min(count/5, 1), to two decimals,
\* where coverage is the number of distinct submission chunks with a match
\* over the number of submission chunks; the risk level is high from
\* 100*threshold_high, medium from 100*threshold_medium, low below
ScoreUsesChunkCoverage ==
    (Made("calculate_similarity_score") /\ call.matches # <<>>)
    => LET ms == call.matches
           n == Len(ms)
           t == call.total_chunks
           num == 40 * MaxScore(ScoresOf(ms)) * n * t
                  + 30 * SumScores(ScoresOf(ms)) * t
                  + 2000 * Cardinality(MatchedChunks(ms)) * n
                  + 200 * Min(n, 5) * n * t
           den == n * t
       IN  /\ call.result.score = RoundDiv(num, den)
           /\ call.result.risk_level =
                  IF num >= similarity_threshold_high * 100 * den
                  THEN "high"
                  ELSE IF num >= similarity_threshold_medium * 100 * den
                       THEN "medium" ELSE "low"

\* C14: a match survives the filter under sensitivity low iff its score is
\* at least similarity_threshold_high, under medium iff at least
\* similarity_threshold_medium, under high iff at least
\* similarity_threshold_low, under any other sensitivity as under medium;
\* the three thresholds decrease from low to high sensitivity, and a match
\* at 0.80 is dropped under low and kept under medium and high
FilterFollowsSensitivity ==
    Made("filter_matches_by_threshold")
    => LET bar == IF call.sensitivity = "low"
                  THEN similarity_threshold_high
                  ELSE IF call.sensitivity = "high"
                       THEN similarity_threshold_low
                       ELSE similarity_threshold_medium
           kept(m) == m.similarity_score >= bar
       IN  /\ call.result = SelectSeq(call.matches, kept)
           /\ similarity_threshold_high > similarity_threshold_medium
           /\ similarity_threshold_medium > similarity_threshold_low
           /\ \A i \in 1..Len(call.matches) :
                 call.matches[i].similarity_score = 80
                 => (\E j \in 1..Len(call.result) :
                        call.result[j] = call.matches[i])
                    <=> call.sensitivity # "low"

LowSensitivityDropsEighty ==
    /\ Made("filter_matches_by_threshold")
    /\ call.sensitivity = "low"
    /\ Len(call.matches) = 2
    /\ call.matches[1].similarity_score = 80
    /\ call.matches[2].similarity_score = 85
    /\ call.result = <<call.matches[2]>>

GroupOf(ms, source_id) == SelectSeq(ms, LAMBDA m : m.source_id = source_id)

FirstAppearance(ms, source_id) ==
    CHOOSE i \in 1..Len(ms) :
        /\ ms[i].source_id = source_id
        /\ \A j \in 1..(i - 1) : ms[j].source_id # source_id

\* what C15 says of the result whatever the value of the scores: one
\* element per distinct source_id of the input, match_count the size of
\* the group, descending similarity_score, equal scores in order of first
\* appearance
AggregateShape ==
    LET ms == call.matches
        out == call.result
    IN  /\ {out[i].source_id : i \in 1..Len(out)}
               = {ms[i].source_id : i \in 1..Len(ms)}
        /\ Len(out) = Cardinality({ms[i].source_id : i \in 1..Len(ms)})
        /\ \A i \in 1..Len(out) :
              out[i].match_count = Len(GroupOf(ms, out[i].source_id))
        /\ \A i \in 1..Len(out) : \A j \in 1..Len(out) :
              i < j
              => /\ out[i].similarity_score >= out[j].similarity_score
                 /\ out[i].similarity_score = out[j].similarity_score
                    => FirstAppearance(ms, out[i].source_id)
                           < FirstAppearance(ms, out[j].source_id)

\* C15, as claimed: the result has that shape and the similarity_score of
\* every element is exactly 0.6*max + 0.4*avg of the scores of its group
AggregateIsExactWeighting ==
    Made("aggregate_matches_by_source")
    => /\ AggregateShape
       /\ \A i \in 1..Len(call.result) :
             LET scores == ScoresOf(GroupOf(call.matches,
                                            call.result[i].source_id))
             IN  call.result[i].similarity_score * Len(scores)
                     = 6 * MaxScore(scores) * Len(scores)
                       + 4 * SumScores(scores)

\* C15, as amended: the result has that shape and the similarity_score of
\* every element is 0.6*max + 0.4*avg of the scores of its group rounded
\* to three decimals, a value in [0, 1]
AggregateIsRoundedWeighting ==
    Made("aggregate_matches_by_source")
    => /\ AggregateShape
       /\ \A i \in 1..Len(call.result) :
             LET scores == ScoresOf(GroupOf(call.matches,
                                            call.result[i].source_id))
                 n == Len(scores)
                 exact_times_n == 6 * MaxScore(scores) * n
                                      + 4 * SumScores(scores)
                 reported == call.result[i].similarity_score
             IN  /\ 2 * (reported * n - exact_times_n) <= n
                 /\ 2 * (exact_times_n - reported * n) <= n
                 /\ reported >= 0
                 /\ reported <= 1000

AggregateReordersSources ==
    /\ Made("aggregate_matches_by_source")
    /\ Len(call.result) = 2
    /\ call.result[1].match_count = 2
    /\ call.result[1].similarity_score > call.result[2].similarity_score
    /\ FirstAppearance(call.matches, call.result[1].source_id)
           > FirstAppearance(call.matches, call.result[2].source_id)

\* the words two chunks have in common
SharedWords(a, b) == Cardinality((a.start..(a.end - 1))
                                     \cap (b.start..(b.end - 1)))

\* C16: of a text of at least min_words words, every chunk but the last has
\* between min_words and max_words words, two consecutive chunks share
\* exactly overlap_words words, chunk_index counts 0, 1, 2, ..., and every
\* word of the text is in a chunk
ChunksOverlapAndCover ==
    (Made("chunk_text") /\ call.words >= min_chunk_words)
    => LET chunks == call.result
       IN  /\ Len(chunks) >= 1
           /\ \A i \in 1..(Len(chunks) - 1) :
                 /\ chunks[i].word_count >= min_chunk_words
                 /\ chunks[i].word_count <= max_chunk_words
                 /\ SharedWords(chunks[i], chunks[i + 1])
                        = chunk_overlap_words
           /\ \A i \in 1..Len(chunks) :
                 /\ chunks[i].chunk_index = i - 1
                 /\ chunks[i].word_count = chunks[i].end - chunks[i].start
           /\ \A word \in 0..(call.words - 1) :
                 \E i \in 1..Len(chunks) :
                     chunks[i].start <= word /\ word < chunks[i].end

LongTextChunked ==
    /\ Made("chunk_text")
    /\ call.words = MaxWords
    /\ Len(call.result) = 3
    /\ call.result[3].word_count < min_chunk_words

\* C17: chunk_text of an empty text returns no chunk
EmptyTextGivesNoChunks ==
    (Made("chunk_text") /\ call.words = 0) => call.result = <<>>

\* C18, as claimed: 120 words chunked with min_words 40, max_words 60 and
\* overlap_words 10 give exactly 2 chunks, the second starting at word 50
HundredTwentyWordsTwoChunks ==
    (Made("chunk_text") /\ call.words = 120)
    => /\ Len(call.result) = 2
       /\ call.result[2].start = 50

\* C18, as amended: 120 words chunked with min_words 40, max_words 60 and
\* overlap_words 10 give exactly 3 chunks, of the words 0-59, 50-109 and
\* 100-119
HundredTwentyWordsThreeChunks ==
    (Made("chunk_text") /\ call.words = 120)
    => /\ min_chunk_words = 40 /\ max_chunk_words = 60
       /\ chunk_overlap_words = 10
       /\ Len(call.result) = 3
       /\ call.result[1].start = 0 /\ call.result[1].end = 60
       /\ call.result[2].start = 50 /\ call.result[2].end = 110
       /\ call.result[3].start = 100 /\ call.result[3].end = 120

HundredTwentyWordsChunked ==
    /\ Made("chunk_text")
    /\ call.words = 120
    /\ Len(call.result) > 2

\* C19: the matches reported for a video are in order of start time, each
\* starts more than 10 seconds after the one before it ends, and each
\* spans from the earliest start to the latest end of the matches merged
\* into it, with matched_chunks_count the number of those matches
MergedMatchesSpanMembers ==
    Made("_merge_adjacent_matches")
    => LET sorted_matches == sort_by_timestamp_start(call.matches)
           out == call.result
       IN  /\ \A i \in 1..(Len(out) - 1) :
                 /\ out[i].timestamp_start <= out[i + 1].timestamp_start
                 /\ out[i + 1].timestamp_start - out[i].timestamp_end
                        > merge_gap_seconds
           /\ \A i \in 1..Len(out) :
                 /\ out[i].members # {}
                 /\ out[i].matched_chunks_count
                        = Cardinality(out[i].members)
                 /\ \A k \in out[i].members :
                       /\ out[i].timestamp_start
                              <= sorted_matches[k].timestamp_start
                       /\ out[i].timestamp_end
                              >= sorted_matches[k].timestamp_end
                 /\ \E k \in out[i].members :
                       out[i].timestamp_start
                           = sorted_matches[k].timestamp_start
                 /\ \E k \in out[i].members :
                       out[i].timestamp_end = sorted_matches[k].timestamp_end

\* C20: every transcript chunk text in the YouTube vector index has at
\* most max_chunk_words = 60 words
IndexedTranscriptChunksAreShort ==
    Made("chunk_transcript")
    => \A v \in DOMAIN store.metadata :
           store.metadata[v].chunk_words <= max_chunk_words

-----------------------------------------------------------------------------
(* Snippets: SimilarityEngine._generate_snippet and
   SimilarityMatcher._truncate_snippet.  A text is its number of characters
   and the positions (from 0) of its spaces. *)

\* the longest candidate text
MaxTextLen == 400

snippet_max_length == 300

ellipsis_length == 3

SetMax(S) == CHOOSE x \in S : \A y \in S : y <= x

\* text[:n]
Prefix(text, n) ==
    IF text.len <= n THEN text
    ELSE [len |-> n, spaces |-> {p \in text.spaces : p < n}]

\* text + "..."
WithEllipsis(text) == [text EXCEPT !.len = @ + ellipsis_length]

\* f"{a} {b}"
JoinWithSpace(a, b) ==
    [len |-> a.len + 1 + b.len,
     spaces |-> a.spaces \cup {a.len} \cup {a.len + 1 + p : p \in b.spaces}]

\* the snippet of an aggregated match from the text of its best match
generate_snippet(source_chunk_text) ==
    IF source_chunk_text.len > snippet_max_length
    THEN WithEllipsis(Prefix(source_chunk_text,
                             snippet_max_length - ellipsis_length))
    ELSE source_chunk_text

\* text[:max_length].rsplit(' ', 1)[0] + "..."
truncate_snippet(text) ==
    IF text.len <= snippet_max_length THEN text
    ELSE LET head == Prefix(text, snippet_max_length)
         IN  IF head.spaces = {} THEN WithEllipsis(head)
             ELSE WithEllipsis(Prefix(head, SetMax(head.spaces)))

\* the snippet of a match merged from two adjacent matches
merged_snippet(current_text, next_text) ==
    truncate_snippet(JoinWithSpace(truncate_snippet(current_text),
                                   truncate_snippet(next_text)))

TextLengths == {10, snippet_max_length, snippet_max_length + 1, MaxTextLen}

SpacePositions == {5, 150, 297, 299}

Texts ==
    {t \in [len : TextLengths, spaces : SUBSET SpacePositions] :
        \A p \in t.spaces : p < t.len}

NoText == [len |-> 0, spaces |-> {}]

SnippetCalls ==
    [op : {"generate_snippet", "truncate_snippet"}, done : {FALSE},
     text : Texts, next_text : {NoText}, result : {NoText}]
    \cup [op : {"merged_snippet"}, done : {FALSE},
          text : Texts, next_text : Texts, result : {NoText}]

SnippetInit ==
    /\ NoJobNoStore
    /\ call \in SnippetCalls

GenerateSnippet ==
    /\ call.op = "generate_snippet" /\ ~call.done
    /\ call' = [call EXCEPT !.done = TRUE,
                            !.result = generate_snippet(call.text)]
    /\ UNCHANGED <<jobVars, storeVars, last_search>>

TruncateSnippet ==
    /\ call.op = "truncate_snippet" /\ ~call.done
    /\ call' = [call EXCEPT !.done = TRUE,
                            !.result = truncate_snippet(call.text)]
    /\ UNCHANGED <<jobVars, storeVars, last_search>>

MergeSnippets ==
    /\ call.op = "merged_snippet" /\ ~call.done
    /\ call' = [call EXCEPT
                  !.done = TRUE,
                  !.result = merged_snippet(call.text, call.next_text)]
    /\ UNCHANGED <<jobVars, storeVars, last_search>>

SnippetNext == GenerateSnippet \/ TruncateSnippet \/ MergeSnippets

SnippetSpec == SnippetInit /\ [][SnippetNext]_vars

SnippetOps == {"generate_snippet", "truncate_snippet", "merged_snippet"}

\* C21: every snippet of a match, of an aggregated match and of a merged
\* match has at most 300 characters, wherever the spaces of the text are
SnippetsAreShort ==
    (call.op \in SnippetOps /\ call.done)
    => call.result.len <= snippet_max_length

-----------------------------------------------------------------------------
(* Embeddings: EmbeddingService.generate_embeddings_batch (OpenAI backend)
   and EmbeddingGenerator.encode (Sentence Transformers backend) *)

\* the longest list of texts embedded in one call
MaxTexts == 3

\* the largest batch_size argument
MaxBatchSize == 2

EmbedTexts == {"", "a", "b"}

ZeroVector == [zero |-> TRUE, of |-> ""]

\* text if text and text.strip() else " "
filtered_text(text) == IF text = "" THEN " " ELSE text

\* the vector the backend returns for a text
real_embedding(text) == [zero |-> FALSE, of |-> text]

\* the number of the API call that carries texts[i]
batch_of(i, batch_size) == ((i - 1) \div batch_size) + 1

\* failed_calls: the API calls whose embeddings.create raises
generate_embeddings_batch(texts, batch_size, failed_calls) ==
    [raised |-> FALSE,
     embeddings |->
        [i \in 1..Len(texts) |->
            IF batch_of(i, batch_size) \in failed_calls
            THEN ZeroVector
            ELSE real_embedding(filtered_text(texts[i]))]]

\* model.encode is called once for the whole list, outside any try
encode(texts, backend_fails) ==
    IF backend_fails
    THEN [raised |-> TRUE, embeddings |-> <<>>]
    ELSE [raised |-> FALSE,
          embeddings |-> [i \in 1..Len(texts) |-> real_embedding(texts[i])]]

NoEmbeddings == [raised |-> FALSE, embeddings |-> <<>>]

EmbeddingCalls ==
    [op : {"generate_embeddings_batch"}, done : {FALSE},
     texts : ListsOf(EmbedTexts, MaxTexts), batch_size : 1..MaxBatchSize,
     failed_calls : SUBSET (1..MaxTexts), result : {NoEmbeddings}]
    \cup [op : {"encode"}, done : {FALSE},
          texts : ListsOf(EmbedTexts, MaxTexts), batch_size : 1..MaxBatchSize,
          failed_calls : {{}, {1}}, result : {NoEmbeddings}]

EmbeddingInit ==
    /\ NoJobNoStore
    /\ call \in EmbeddingCalls

GenerateEmbeddingsBatch ==
    /\ call.op = "generate_embeddings_batch" /\ ~call.done
    /\ call' = [call EXCEPT
                  !.done = TRUE,
                  !.result = generate_embeddings_batch(
                                 call.texts, call.batch_size,
                                 call.failed_calls)]
    /\ UNCHANGED <<jobVars, storeVars, last_search>>

Encode ==
    /\ call.op = "encode" /\ ~call.done
    /\ call' = [call EXCEPT
                  !.done = TRUE,
                  !.result = encode(call.texts, call.failed_calls # {})]
    /\ UNCHANGED <<jobVars, storeVars, last_search>>

EmbeddingNext == GenerateEmbeddingsBatch \/ Encode

EmbeddingSpec == EmbeddingInit /\ [][EmbeddingNext]_vars

\* the texts of a call whose backend request failed
FailedTexts ==
    {i \in 1..Len(call.texts) :
        IF call.op = "encode" THEN call.failed_calls # {}
        ELSE batch_of(i, call.batch_size) \in call.failed_calls}

\* C22: embedding a batch never raises on a backend failure and returns one
\* vector per text in input order: a zero vector for the texts whose
\* embedding failed, the real embedding for every other text
EmbeddingBatchNeverRaises ==
    (call.op \in {"generate_embeddings_batch", "encode"} /\ call.done)
    => /\ ~call.result.raised
       /\ Len(call.result.embeddings) = Len(call.texts)
       /\ \A i \in 1..Len(call.texts) :
             call.result.embeddings[i].zero = (i \in FailedTexts)

-----------------------------------------------------------------------------
\* C23: every transcript chunk that has a word carries the timestamp of the
\* segment that contains its first word, also when filler words or whole
\* filler-only segments were removed
ChunkTimestampIsOfFirstWord ==
    Made("chunk_transcript")
    => \A i \in 1..Len(call.result) :
           call.result[i].words > 0
           => call.segments[call.result[i].timestamp] > 0

-----------------------------------------------------------------------------
\* C24: each Check is processed by one worker: when its task is delivered
\* to two workers, the Match rows of the Check all come from one of them
MatchRowsFromOneWorker ==
    \A i, j \in 1..Len(matches) :
        matches[i].check_id = matches[j].check_id
        => matches[i].run = matches[j].run

-----------------------------------------------------------------------------
(* Two jobs that add the chunks of their video to one FAISSVectorStore
   object and save it, statement by statement: add_vectors and save take no
   lock, and _check_youtube holds none around them.  Job j adds the chunks
   of video j. *)

Jobs == {1, 2}

NewJob(n) == [pc |-> "start_id", count |-> n, start_id |-> 0,
              loaded |-> 0, vector_ids |-> {}]

ConcurrentCalls ==
    [op : {"concurrent_add"}, done : {FALSE},
     jobs : [Jobs -> {NewJob(n) : n \in 1..MaxAdd}]]

ConcurrentInit ==
    /\ NoJobNoStore
    /\ call \in ConcurrentCalls

AtStatement(j, pc) == call.op = "concurrent_add" /\ call.jobs[j].pc = pc

\* start_id = self.next_id
ReadStartId(j) ==
    /\ AtStatement(j, "start_id")
    /\ call' = [call EXCEPT !.jobs[j].start_id = store.next_id,
                            !.jobs[j].pc = "index_add"]
    /\ UNCHANGED <<jobVars, storeVars, last_search>>

\* self.index.add(embeddings)
IndexAdd(j) ==
    /\ AtStatement(j, "index_add")
    /\ store' = [store EXCEPT
                   !.index = @ \o source_chunks(j, call.jobs[j].count)]
    /\ call' = [call EXCEPT !.jobs[j].pc = "metadata"]
    /\ UNCHANGED <<jobVars, disk, ids, removed, last_search>>

\* for i, meta in enumerate(metadata_list): self.metadata[start_id + i] = meta
StoreMetadata(j) ==
    /\ AtStatement(j, "metadata")
    /\ LET job == call.jobs[j]
           new == {job.start_id + (i - 1) : i \in 1..job.count}
       IN  /\ store' = [store EXCEPT !.metadata =
                  [v \in DOMAIN store.metadata \cup new |->
                      IF v \in new
                      THEN source_chunks(j, job.count)[v - job.start_id + 1]
                      ELSE store.metadata[v]]]
           /\ call' = [call EXCEPT !.jobs[j].vector_ids = new,
                                   !.jobs[j].pc = "load_next_id"]
    /\ UNCHANGED <<jobVars, disk, ids, removed, last_search>>

\* self.next_id += len(embeddings): the read of the attribute
LoadNextId(j) ==
    /\ AtStatement(j, "load_next_id")
    /\ call' = [call EXCEPT !.jobs[j].loaded = store.next_id,
                            !.jobs[j].pc = "store_next_id"]
    /\ UNCHANGED <<jobVars, storeVars, last_search>>

\* self.next_id += len(embeddings): the write of the attribute
StoreNextId(j) ==
    /\ AtStatement(j, "store_next_id")
    /\ store' = [store EXCEPT
                   !.next_id = call.jobs[j].loaded + call.jobs[j].count]
    /\ call' = [call EXCEPT !.jobs[j].pc = "write_index"]
    /\ UNCHANGED <<jobVars, disk, ids, removed, last_search>>

\* save: faiss.write_index(self.index, index_file)
WriteIndex(j) ==
    /\ AtStatement(j, "write_index")
    /\ disk' = [disk EXCEPT !.has_index = TRUE, !.index = store.index]
    /\ call' = [call EXCEPT !.jobs[j].pc = "write_metadata"]
    /\ UNCHANGED <<jobVars, store, ids, removed, last_search>>

\* save: pickle.dump({'metadata': ..., 'next_id': ...}, f)
WriteMetadata(j) ==
    /\ AtStatement(j, "write_metadata")
    /\ disk' = [disk EXCEPT !.has_meta = TRUE,
                            !.metadata = store.metadata,
                            !.next_id = store.next_id]
    /\ call' = [call EXCEPT !.jobs[j].pc = "done"]
    /\ UNCHANGED <<jobVars, store, ids, removed, last_search>>

ConcurrentNext ==
    \E j \in Jobs :
        \/ ReadStartId(j)
        \/ IndexAdd(j)
        \/ StoreMetadata(j)
        \/ LoadNextId(j)
        \/ StoreNextId(j)
        \/ WriteIndex(j)
        \/ WriteMetadata(j)

ConcurrentSpec == ConcurrentInit /\ [][ConcurrentNext]_vars

BothJobsDone ==
    call.op = "concurrent_add" /\ \A j \in Jobs : call.jobs[j].pc = "done"

\* C25: when two jobs add vectors to the same store and save it
\* concurrently, under every interleaving the returned id lists are
\* disjoint, next_id has advanced by the number of vectors added and the
\* metadata of every added vector is retained
ConcurrentAddsAreSerialized ==
    BothJobsDone
    => /\ call.jobs[1].vector_ids \cap call.jobs[2].vector_ids = {}
       /\ store.next_id = call.jobs[1].count + call.jobs[2].count
       /\ \A j \in Jobs : \A v \in call.jobs[j].vector_ids :
             /\ v \in DOMAIN store.metadata
             /\ store.metadata[v].source_id = j

-----------------------------------------------------------------------------
\* the keys of the records of a source that a search can return
LiveIds(st, source_id) ==
    {v \in DOMAIN st.metadata : st.metadata[v].source_id = source_id}

\* the store holds exactly the n chunks of the source, as one add left them
HoldsChunksOf(st, source_id, n) ==
    /\ Cardinality(LiveIds(st, source_id)) = n
    /\ \A i \in 1..n : \E v \in LiveIds(st, source_id) :
          st.metadata[v] = source_chunks(source_id, n)[i]

\* C26: adding the chunks of a video that the store already holds overwrites
\* the metadata of that source: the records a search can return for the
\* source are the same as after the first addition
RepeatedAddIsIdempotent ==
    [][\A source_id \in SourceIds, n \in 1..MaxAdd :
          (/\ HoldsChunksOf(store, source_id, n)
           /\ store' = add_vectors(store, source_chunks(source_id, n)))
          => LiveIds(store', source_id) = LiveIds(store, source_id)]_vars

-----------------------------------------------------------------------------
(* The loop of _check_youtube over candidate videos that differ in their
   similarity to the article *)

\* the longest list of candidate videos
MaxCandidates == 4

\* video i of the candidates has one transcript chunk of similarity scores[i]
candidate_videos(scores) ==
    [i \in 1..Len(scores) |-> [video_id |-> i, nchunks |-> 1,
                               score |-> scores[i]]]

NoLoopResult ==
    [store |-> EmptyStore, ids |-> NoIds, matches |-> <<>>, processed |-> 0]

YoutubeCalls ==
    [op : {"check_youtube"}, done : {FALSE},
     videos : {candidate_videos(scores) :
                  scores \in ListsOf(ScoreLevels, MaxCandidates)},
     sensitivity : Sensitivities, chunk_count : 1..MaxChunks,
     result : {NoLoopResult}]

YoutubeInit ==
    /\ NoJobNoStore
    /\ call \in YoutubeCalls

CheckYoutubeVideos ==
    /\ call.op = "check_youtube" /\ ~call.done
    /\ LET out == youtube_loop(
                      call.videos, 1, store, ids, <<>>, call.chunk_count,
                      get_threshold_for_sensitivity(call.sensitivity))
       IN  /\ call' = [call EXCEPT !.done = TRUE, !.result = out]
           /\ store' = out.store
           /\ ids' = out.ids
    /\ UNCHANGED <<jobVars, disk, removed, last_search>>

YoutubeNext == CheckYoutubeVideos

YoutubeSpec == YoutubeInit /\ [][YoutubeNext]_vars

\* the candidates, among the first n, with a chunk at or above the threshold
MatchingVideos(n) ==
    {i \in 1..n :
        call.videos[i].score
            >= get_threshold_for_sensitivity(call.sensitivity)}

\* the videos whose chunks are in the index
IndexedVideos == {store.metadata[v].source_id : v \in DOMAIN store.metadata}

\* C27: when the first three videos give no match, no later candidate is
\* indexed or compared; otherwise every candidate is indexed and compared
EarlyExitAfterThreeVideos ==
    Made("check_youtube")
    => LET n == Len(call.videos)
           expected == IF n >= 3 /\ MatchingVideos(3) = {} THEN 3 ELSE n
       IN  /\ IndexedVideos = 1..expected
           /\ DistinctSources(call.result.matches)
                  = MatchingVideos(expected)
           /\ call.result.processed = expected

EarlyExitTaken ==
    /\ Made("check_youtube")
    /\ Len(call.videos) > 3
    /\ MatchingVideos(Len(call.videos)) # {}
    /\ IndexedVideos = 1..3

-----------------------------------------------------------------------------
(* The store and its two files when a save can stop half way *)

\* save() that ends after faiss.write_index: the write of metadata.pkl
\* raises (disk full, unpicklable metadata) or the process is stopped
SaveInterrupted ==
    /\ disk' = [disk EXCEPT !.has_index = TRUE, !.index = store.index]
    /\ UNCHANGED <<store, ids, removed, jobVars, libVars>>

\* add_vectors of a video of one chunk, with next_id kept within the bound
AddOneChunk(source_id) ==
    /\ store.next_id + 1 < MaxVectors
    /\ AddVectors(source_id, 1)

FilesNext ==
    \/ \E source_id \in SourceIds : AddOneChunk(source_id)
    \/ \E source_id \in SourceIds : RemoveBySource(source_id)
    \/ Clear
    \/ Save
    \/ SaveInterrupted
    \/ Load

FilesSpec == Init /\ [][FilesNext]_vars

\* C28: in every reachable state of a store next_id is the number of
\* vectors in the index, every metadata key is below it and metadata[i]
\* describes the vector at index position i
MetadataAlignedWithIndex ==
    /\ store.next_id = Len(store.index)
    /\ \A v \in DOMAIN store.metadata :
          /\ v < store.next_id
          /\ store.metadata[v] = store.index[v + 1]

-----------------------------------------------------------------------------
\* C29: a search without a filter returns min(k, number of live records)
\* results: vectors deleted by remove_by_source that stay in the index do
\* not push a live record out of the result
UnfilteredSearchFillsK ==
    (last_search # NoSearch /\ last_search.filter = NoFilter)
    => Len(last_search.results)
           = Min(last_search.k, Cardinality(DOMAIN store.metadata))

-----------------------------------------------------------------------------
(* TextChunker.chunk_text as a loop, one iteration per step, for the
   configurations TextChunker.__init__ accepts: the constructor stores
   min_words, max_words and overlap_words as given. *)

\* the largest max_words of a chunker; overlap_words goes one beyond it
MaxChunkerWords == 3

\* the longest text, in words
MaxTextWords == 5

\* the chunks of a call are counted up to this number, and
\* start_word_idx is followed down to -MaxTextWords: at or below 0, with
\* more words than max_words, every value takes the same branches
MaxIterations == MaxTextWords + 1

Chunkers ==
    [min_words : 1..2, max_words : 1..MaxChunkerWords,
     overlap_words : 0..(MaxChunkerWords + 1)]

ChunkLoopCalls ==
    [op : {"chunk_loop"}, done : {FALSE}, chunker : Chunkers,
     words : 0..MaxTextWords, pc : {"enter"}, start_word_idx : {0},
     chunk_index : {0}]

ChunkLoopInit ==
    /\ NoJobNoStore
    /\ call \in ChunkLoopCalls

\* words = text.split(); the single chunk of a short text, or the loop
ChunkTextEnter ==
    /\ call.op = "chunk_loop" /\ call.pc = "enter"
    /\ call' = IF call.words < call.chunker.min_words
               THEN [call EXCEPT !.pc = "returned", !.done = TRUE,
                                 !.chunk_index = 1]
               ELSE [call EXCEPT !.pc = "while"]
    /\ UNCHANGED <<jobVars, storeVars, last_search>>

\* while start_word_idx < len(words)
ChunkTextWhile ==
    /\ call.op = "chunk_loop" /\ call.pc = "while"
    /\ call' = IF call.start_word_idx < call.words
               THEN [call EXCEPT !.pc = "body"]
               ELSE [call EXCEPT !.pc = "returned", !.done = TRUE]
    /\ UNCHANGED <<jobVars, storeVars, last_search>>

\* the loop body: one more chunk, then the break or the next start
ChunkTextBody ==
    /\ call.op = "chunk_loop" /\ call.pc = "body"
    /\ LET end_word_idx == Min(call.start_word_idx + call.chunker.max_words,
                               call.words)
           next_start == call.start_word_idx
                             + (call.chunker.max_words
                                    - call.chunker.overlap_words)
           counted == Min(call.chunk_index + 1, MaxIterations)
       IN  call' =
             IF end_word_idx >= call.words
             THEN [call EXCEPT !.pc = "returned", !.done = TRUE,
                               !.chunk_index = counted]
             ELSE [call EXCEPT
                     !.pc = "while",
                     !.chunk_index = counted,
                     !.start_word_idx = IF next_start < -MaxTextWords
                                        THEN -MaxTextWords
                                        ELSE next_start]
    /\ UNCHANGED <<jobVars, storeVars, last_search>>

ChunkLoopNext == ChunkTextEnter \/ ChunkTextWhile \/ ChunkTextBody

\* the interpreter keeps executing the call: a statement that can run does
ChunkLoopSpec ==
    ChunkLoopInit /\ [][ChunkLoopNext]_vars /\ WF_vars(ChunkLoopNext)

\* C30: chunk_text returns for every text and every configuration the
\* constructor accepts, overlap_words >= max_words included
ChunkTextTerminates == <>(call.op = "chunk_loop" /\ call.pc = "returned")

====
